---- MODULE Spec2Model ----
(***************************************************************************)
(* Model of health_bot.py: the symptom scorer (analyze_symptoms), the      *)
(* triage classifier (get_verdict), the advice parser                      *)
(* (get_gemini_response), the input validator (validate_symptoms), the     *)
(* program from its start through the symptom-report flow (main,           *)
(* report_symptoms, save_log, the top-level handler), the stored records   *)
(* (delete_last_entry, view_history) and the timeline                      *)
(* (show_symptom_timeline).                                                *)
(*                                                                         *)
(* A text is a sequence of one-character strings, so that str.lower() and  *)
(* the substring test `keyword in symptoms_lower` are computed and not     *)
(* assumed.  Emoji of the source are written as bracketed ASCII names.     *)
(***************************************************************************)
EXTENDS Integers, Sequences, FiniteSets, TLC

VARIABLES
    pc,               \* position of the program / of the function under check
    symptomsFile,     \* symptoms_db.json: whether it loads, and what it holds
    symptoms_db,      \* report_symptoms: the table load_symptoms_db returned
    symptoms,         \* the symptom text
    keywords,         \* analyze_symptoms: matched keywords
    score,            \* analyze_symptoms: total score
    verdict,          \* get_verdict(score)
    genOutcome,       \* what model.generate_content produced for this call
    response,         \* get_gemini_response: {"remedy", "doctor_advice"}
    sessions,         \* rows of the sessions table, in insertion order
    console,          \* what the last step printed
    current_user_id,  \* main: the logged-in student
    reports,          \* number of report_symptoms calls begun in this run
    raised,           \* the exception that reached the handler of __main__
    analyzeCalls,     \* number of calls of analyze_symptoms in this run
    generateCalls,    \* number of calls of model.generate_content in this run
    displayed,        \* the table the last display function put on the screen
    interrupted,      \* whether a KeyboardInterrupt was delivered in this run
    args_research,    \* main: args.research
    db_initialized,   \* whether init_db ran in this run
    counts,           \* show_symptom_timeline: sessions per day of the window
    users,            \* rows of the users table, in insertion order
    profile_tables    \* rows of medical_history, allergies, emergency_contacts

vars == <<pc, symptomsFile, symptoms_db, symptoms, keywords, score, verdict,
          genOutcome, response, sessions, console, current_user_id, reports,
          raised, analyzeCalls, generateCalls, displayed, interrupted,
          args_research, db_initialized, counts, users, profile_tables>>

-----------------------------------------------------------------------------
(* Bounds of the model *)

MaxTextLen == 3
MaxConds == 2
MaxRespLen == 3
MaxReports == 1
MaxDayCount == 2
MaxRows == 3
MaxRecords == 1

-----------------------------------------------------------------------------
(* Characters and texts *)

Letters == {"a", "b", "A"}
Digits == {"1"}

SeqsUpTo(S, n) == UNION {[1..k -> S] : k \in 0..n}

\* str.lower(), character by character
LowerChar(c) == CASE c = "A" -> "a" [] c = "B" -> "b" [] OTHER -> c
Lower(s) == [i \in 1..Len(s) |-> LowerChar(s[i])]

\* Python `k in s` for strings: k occurs in s as a contiguous substring
IsSubstring(k, s) ==
    \E i \in 0..(Len(s) - Len(k)) : SubSeq(s, i + 1, i + Len(k)) = k

\* str.isdigit() of one character
IsDigit(c) == c \in Digits

-----------------------------------------------------------------------------
(* The keyword table: a dict condition -> {keywords, weight}; the dict's      *)
(* insertion order is the order of the sequence, a condition's key is its     *)
(* position.                                                                   *)

kw_a == <<"a">>
kw_ab == <<"a", "b">>
kw_Ab == <<"A", "b">>

KeywordLists ==
    { <<kw_ab>>, <<kw_a, kw_ab>>, <<kw_ab, kw_a>>, <<kw_Ab>>, <<kw_a, kw_a>> }

Weights == {-1, 3}

Entries == [keywords : KeywordLists, weight : Weights]

Tables == SeqsUpTo(Entries, MaxConds)

ScorerTexts == SeqsUpTo(Letters, MaxTextLen)

-----------------------------------------------------------------------------
(* analyze_symptoms: the two nested loops, left to right *)

RECURSIVE ScanKeywords(_, _, _, _)
\* inner loop over data['keywords'], from index i, with accumulator acc
ScanKeywords(data, i, symptoms_lower, acc) ==
    IF i > Len(data.keywords) THEN acc
    ELSE LET keyword == data.keywords[i]
         IN  IF IsSubstring(keyword, symptoms_lower)
             THEN ScanKeywords(data, i + 1, symptoms_lower,
                               [keywords |-> Append(acc.keywords, keyword),
                                score |-> acc.score + data.weight])
             ELSE ScanKeywords(data, i + 1, symptoms_lower, acc)

RECURSIVE ScanConditions(_, _, _, _)
\* outer loop over symptoms_db.items(), from index c
ScanConditions(db, c, symptoms_lower, acc) ==
    IF c > Len(db) THEN acc
    ELSE ScanConditions(db, c + 1, symptoms_lower,
                        ScanKeywords(db[c], 1, symptoms_lower, acc))

\* A scorer that adds a weight only for the first occurrence of a keyword string
analyze_symptoms_countOnce(text, db) ==
    LET RECURSIVE Go(_, _, _)
        Go(c, i, acc) ==
            IF c > Len(db) THEN acc
            ELSE IF i > Len(db[c].keywords) THEN Go(c + 1, 1, acc)
            ELSE LET keyword == db[c].keywords[i]
                     seen == \E j \in 1..Len(acc.keywords) : acc.keywords[j] = keyword
                 IN  IF IsSubstring(keyword, Lower(text))
                     THEN Go(c, i + 1,
                             [keywords |-> Append(acc.keywords, keyword),
                              score |-> IF seen THEN acc.score
                                        ELSE acc.score + db[c].weight])
                     ELSE Go(c, i + 1, acc)
    IN  Go(1, 1, [keywords |-> <<>>, score |-> 0])

\* A scorer whose membership test has its operands swapped
analyze_symptoms_swapped(text, db) ==
    LET RECURSIVE Go(_, _, _)
        Go(c, i, acc) ==
            IF c > Len(db) THEN acc
            ELSE IF i > Len(db[c].keywords) THEN Go(c + 1, 1, acc)
            ELSE LET keyword == db[c].keywords[i]
                 IN  IF IsSubstring(Lower(text), keyword)
                     THEN Go(c, i + 1,
                             [keywords |-> Append(acc.keywords, keyword),
                              score |-> acc.score + db[c].weight])
                     ELSE Go(c, i + 1, acc)
    IN  Go(1, 1, [keywords |-> <<>>, score |-> 0])

\* A scorer that inserts each match at the front of the list
analyze_symptoms_prepend(text, db) ==
    LET r == ScanConditions(db, 1, Lower(text), [keywords |-> <<>>, score |-> 0])
    IN  [keywords |-> [i \in 1..Len(r.keywords) |->
                          r.keywords[Len(r.keywords) + 1 - i]],
         score |-> r.score]

\* A scorer that deducts one point for every keyword that does not match
analyze_symptoms_penalty(text, db) ==
    LET RECURSIVE Go(_, _, _)
        Go(c, i, acc) ==
            IF c > Len(db) THEN acc
            ELSE IF i > Len(db[c].keywords) THEN Go(c + 1, 1, acc)
            ELSE LET keyword == db[c].keywords[i]
                 IN  IF IsSubstring(keyword, Lower(text))
                     THEN Go(c, i + 1,
                             [keywords |-> Append(acc.keywords, keyword),
                              score |-> acc.score + db[c].weight])
                     ELSE Go(c, i + 1, [acc EXCEPT !.score = @ - 1])
    IN  Go(1, 1, [keywords |-> <<>>, score |-> 0])

\* A scorer whose accumulators live at module level: a second call goes on
\* from the list and the total the call before it left behind
analyze_symptoms_moduleLevel(text, db) ==
    IF pc = "scorer_input"
    THEN ScanConditions(db, 1, Lower(text), [keywords |-> <<>>, score |-> 0])
    ELSE ScanConditions(db, 1, Lower(text),
                        [keywords |-> keywords, score |-> score])

analyze_symptoms(text, db) ==
    ScanConditions(db, 1, Lower(text), [keywords |-> <<>>, score |-> 0])

-----------------------------------------------------------------------------
(* get_verdict *)

HomeCare == "[green circle] Home Care"
Monitor == "[yellow circle] Monitor"
UrgentCare == "[red circle] Urgent Care"

\* A classifier whose first band also takes the score 3
get_verdict_offByOne(s) ==
    IF s <= 3 THEN HomeCare
    ELSE IF s <= 5 THEN Monitor
    ELSE UrgentCare

get_verdict(s) ==
    IF s < 3 THEN HomeCare
    ELSE IF 3 <= s /\ s <= 5 THEN Monitor
    ELSE UrgentCare

-----------------------------------------------------------------------------
(* get_gemini_response.  The generator's text is a sequence of tokens: the   *)
(* two section labels, a word and a blank.  A parsed section is the token    *)
(* sequence between labels; a fallback string is a one-token sequence.       *)

RemedyLabel == "[pill] Remedy:"
DoctorLabel == "[doctor] When to see doctor:"
Blank == " "
RespTokens == {RemedyLabel, DoctorLabel, "x", Blank}

\* model.generate_content(prompt) or response.text raised
GenRaises == <<"raise">>
GenTexts == SeqsUpTo(RespTokens, MaxRespLen)
GenOutcomes == {GenRaises} \cup GenTexts

ParseRemedyFallback == <<"Unable to parse remedy from AI response">>
ParseDoctorFallback ==
    <<"If symptoms persist or worsen, please consult a healthcare provider">>
ErrorRemedyFallback == <<"Error getting AI response. Please try again.">>
ErrorDoctorFallback ==
    <<"If symptoms persist, please consult a healthcare provider.">>

RECURSIVE Split(_, _)
\* str.split(sep): the segments of s between the occurrences of sep
Split(s, sep) ==
    IF \A i \in 1..Len(s) : s[i] # sep THEN <<s>>
    ELSE LET p == CHOOSE i \in 1..Len(s) :
                      s[i] = sep /\ \A j \in 1..(i - 1) : s[j] # sep
         IN  <<SubSeq(s, 1, p - 1)>> \o Split(SubSeq(s, p + 1, Len(s)), sep)

RECURSIVE Strip(_)
\* str.strip(): leading and trailing blanks removed
Strip(s) ==
    IF s = <<>> THEN s
    ELSE IF Head(s) = Blank THEN Strip(Tail(s))
    ELSE IF s[Len(s)] = Blank THEN Strip(SubSeq(s, 1, Len(s) - 1))
    ELSE s

\* A parser without the two inner try blocks: a missing label is an IndexError
\* that the outer handler turns into the error strings
get_gemini_response_noInnerTry(outcome) ==
    IF outcome = GenRaises
       \/ Len(Split(outcome, RemedyLabel)) < 2
       \/ Len(Split(outcome, DoctorLabel)) < 2
    THEN [remedy |-> ErrorRemedyFallback, doctor_advice |-> ErrorDoctorFallback]
    ELSE [remedy |-> Strip(Split(Split(outcome, RemedyLabel)[2], DoctorLabel)[1]),
          doctor_advice |-> Strip(Split(outcome, DoctorLabel)[2])]

\* An outer handler that returns the strings of the parse failures
get_gemini_response_parseStrings(outcome) ==
    IF outcome = GenRaises
    THEN [remedy |-> ParseRemedyFallback, doctor_advice |-> ParseDoctorFallback]
    ELSE [remedy |-> IF Len(Split(outcome, RemedyLabel)) < 2
                     THEN ParseRemedyFallback
                     ELSE Strip(Split(Split(outcome, RemedyLabel)[2],
                                      DoctorLabel)[1]),
          doctor_advice |-> IF Len(Split(outcome, DoctorLabel)) < 2
                            THEN ParseDoctorFallback
                            ELSE Strip(Split(outcome, DoctorLabel)[2])]

get_gemini_response(outcome) ==
    IF outcome = GenRaises
    THEN \* except Exception: the two error strings
         [remedy |-> ErrorRemedyFallback, doctor_advice |-> ErrorDoctorFallback]
    ELSE LET text == outcome
             byRemedy == Split(text, RemedyLabel)
             byDoctor == Split(text, DoctorLabel)
             remedy == IF Len(byRemedy) < 2     \* [1] raises IndexError
                       THEN ParseRemedyFallback
                       ELSE Strip(Split(byRemedy[2], DoctorLabel)[1])
             doctor_advice == IF Len(byDoctor) < 2
                              THEN ParseDoctorFallback
                              ELSE Strip(byDoctor[2])
         IN  [remedy |-> remedy, doctor_advice |-> doctor_advice]

-----------------------------------------------------------------------------
(* validate_symptoms *)

MinSymptomsLen == 3

\* A validator that only checks the length
validate_symptoms_lengthOnly(text) == ~(Len(text) < MinSymptomsLen)

validate_symptoms(text) ==
    IF Len(text) < MinSymptomsLen THEN FALSE
    ELSE IF \E i \in 1..Len(text) : IsDigit(text[i]) THEN FALSE
    ELSE TRUE

-----------------------------------------------------------------------------
(* load_symptoms_db, display_response, save_log *)

None == "None"

\* the local `symptoms` before the first prompt, and genOutcome before a call
NoText == <<"none">>
NoCall == <<"no call">>

\* symptoms_db.json when open() or json.load() raises
LoadError == [loads |-> FALSE, content |-> <<>>]

\* A loader that answers a failed load with a built-in table
load_symptoms_db_builtin(file) ==
    IF ~file.loads
    THEN <<[keywords |-> <<kw_a>>, weight |-> 3]>>
    ELSE file.content

\* json.load of the file; {} when open or json.load raises
load_symptoms_db(file) ==
    IF ~file.loads THEN <<>> ELSE file.content

UrgentPanel == "URGENT: Health Advice"
UrgentWarning == "Please seek medical attention immediately!"
AdvicePanel == "Health Advice"
AdviceHint == "Follow the suggested remedy and monitor your symptoms."

display_response(s) ==
    IF s > 5 THEN <<UrgentPanel, UrgentWarning>> ELSE <<AdvicePanel, AdviceHint>>

\* json.dumps of a list or a dict: the JSON text that denotes the value
JsonDumps(v) == [json |-> v]

\* A row whose keywords column is the dump of an empty list
SessionRow_emptyKeywords(id, student_id, timestamp, text, kws, s, v, resp) ==
    [id |-> id, student_id |-> student_id, timestamp |-> timestamp,
     symptoms |-> text, keywords |-> JsonDumps(<<>>), score |-> s,
     verdict |-> v, gemini_response |-> JsonDumps(resp)]

\* the row save_log inserts into sessions, with the id the table gives it
SessionRow(id, student_id, timestamp, text, kws, s, v, resp) ==
    [id |-> id, student_id |-> student_id, timestamp |-> timestamp,
     symptoms |-> text, keywords |-> JsonDumps(kws), score |-> s,
     verdict |-> v, gemini_response |-> JsonDumps(resp)]

\* the largest value of a non-empty finite set of integers
Max(S) == CHOOSE x \in S : \A y \in S : y <= x

\* INTEGER PRIMARY KEY AUTOINCREMENT: an id above every id of the table
NextId(store) ==
    IF store = <<>> THEN 1
    ELSE Max({store[i].id : i \in 1..Len(store)}) + 1

\* datetime.now() of save_log, in seconds: the clock is read after every
\* row of the table was written
Now(store) ==
    IF store = <<>> THEN 1
    ELSE Max({store[i].timestamp : i \in 1..Len(store)}) + 1

\* the six rows of display_response's table
DisplayTable(text, kws, s, v, resp) ==
    [symptoms |-> text, keywords |-> kws, score |-> s, verdict |-> v,
     remedy |-> resp.remedy, doctor_advice |-> resp.doctor_advice]

\* sys.stdout.write('\a'): the terminal bell
Bell == "BEL"

\* what play_alert_sound writes; no function of the program calls it
play_alert_sound == <<Bell>>

HEALTH_TOPICS ==
    {"dengue", "fever", "common cold", "heat stroke", "seasonal allergies"}

\* `if args.research`: None and the empty string are false
Truthy(arg) == arg # None /\ arg # ""

TopicNotFoundDbMsg == "Topic not found in research database."
TopicNotFoundMsg == "Topic not found:"
AvailableTopicsMsg == "Available topics: dengue, fever, common cold, heat stroke, seasonal allergies"
ResearchTitle == "Research:"
PreventionPanel == "Prevention"
FirstAidPanel == "First Aid"

\* what show_research_info puts on the screen
show_research_info(topic) ==
    IF topic \notin HEALTH_TOPICS
    THEN <<TopicNotFoundDbMsg>>
    ELSE <<ResearchTitle, topic, PreventionPanel, FirstAidPanel>>

WelcomeMsg == "Welcome to Health Alert Bot!"
KeyboardInterrupt == "KeyboardInterrupt"
InterruptedMsg == "Program interrupted by user."

InvalidInputMsg ==
    "Invalid input! Please provide at least 3 characters and avoid numbers."
SavedMsg == "Health log saved successfully!"
TopLevelErrorMsg == "An error occurred"
TryAgainMsg == "Please try again later."
GoodbyeMsg == "Goodbye! Stay healthy!"
AiErrorMsg == "Error getting AI response"
SqliteError == "sqlite3.Error"

-----------------------------------------------------------------------------
(* Spec: main's menu loop with report_symptoms, under the handler of        *)
(* __main__.  The file, the typed texts, the generator and the database     *)
(* are the environment.                                                      *)

\* the row create_new_profile inserts into users
UserRow(student_id, full_name, age, gender, hostel_room, created_at, last_login) ==
    [student_id |-> student_id, full_name |-> full_name, age |-> age,
     gender |-> gender, hostel_room |-> hostel_room,
     created_at |-> created_at, last_login |-> last_login]

\* medical_history, allergies and emergency_contacts after init_db created
\* them
EmptyProfileTables ==
    [medical_history |-> <<>>, allergies |-> <<>>, emergency_contacts |-> <<>>]

\* the users table of the runs that start with registered students
FlowUsers ==
    <<UserRow("s2", "n", 20, "Other", "r", 1, 1),
      UserRow("s1", "n", 20, "Other", "r", 1, 1)>>

StudentIds == {"s1"}

FlowTables ==
    { <<>>,
      <<[keywords |-> <<kw_a, kw_ab>>, weight |-> 3]>>,
      <<[keywords |-> <<kw_ab>>, weight |-> 3],
        [keywords |-> <<kw_a, kw_Ab>>, weight |-> -1]>> }

SymptomFiles ==
    {LoadError} \cup {[loads |-> TRUE, content |-> t] : t \in FlowTables}

ReportChars == {"a", "b"}

\* typed texts that hold a digit
DigitTexts == {<<"1">>, <<"a", "1", "b">>, <<"a", "b", "1">>}

ReportTexts == SeqsUpTo(ReportChars, MaxTextLen) \cup DigitTexts

FlowOutcomes ==
    { GenRaises, <<"x">>, <<RemedyLabel, "x">>,
      <<RemedyLabel, "x", DoctorLabel>> }

\* the sessions table when the program starts: empty, or one row that an
\* earlier run saved for another student
FlowPriorStores ==
    { <<>>,
      <<SessionRow(1, "s2", 1, <<"b", "a", "b">>, <<kw_ab>>, 3, get_verdict(3),
                   [remedy |-> <<"x">>, doctor_advice |-> ParseDoctorFallback])>> }

\* --research: absent, empty, a key of HEALTH_TOPICS, another word
ResearchArgs == {None, "", "fever", "flu"}

Init ==
    /\ pc = "start"
    /\ args_research \in ResearchArgs
    /\ symptomsFile \in SymptomFiles
    /\ symptoms_db = None
    /\ symptoms = NoText
    /\ keywords = None
    /\ score = None
    /\ verdict = None
    /\ genOutcome = NoCall
    /\ response = None
    /\ sessions \in FlowPriorStores
    /\ console = <<>>
    /\ current_user_id = None
    /\ reports = 0
    /\ raised = None
    /\ analyzeCalls = 0
    /\ generateCalls = 0
    /\ displayed = None
    /\ interrupted = FALSE
    /\ db_initialized = FALSE
    /\ users = FlowUsers
    /\ profile_tables = EmptyProfileTables
    /\ counts = None

\* A start that creates the tables before it looks at the arguments
MainResearch_initFirst ==
    /\ pc = "start"
    /\ Truthy(args_research)
    /\ db_initialized' = TRUE
    /\ console' = (IF args_research \in HEALTH_TOPICS
                   THEN show_research_info(args_research)
                   ELSE <<TopicNotFoundMsg, args_research, AvailableTopicsMsg>>)
    /\ pc' = "terminated"
    /\ UNCHANGED <<symptomsFile, symptoms_db, symptoms, keywords, score,
                   verdict, genOutcome, response, sessions, current_user_id,
                   reports, raised, analyzeCalls, generateCalls, displayed,
                   interrupted, args_research, counts,
                   users, profile_tables>>

\* main with --research: show the topic or the not-found lines, then return
MainResearch ==
    /\ pc = "start"
    /\ Truthy(args_research)
    /\ console' = (IF args_research \in HEALTH_TOPICS
                   THEN show_research_info(args_research)
                   ELSE <<TopicNotFoundMsg, args_research, AvailableTopicsMsg>>)
    /\ pc' = "terminated"
    /\ UNCHANGED <<symptomsFile, symptoms_db, symptoms, keywords, score,
                   verdict, genOutcome, response, sessions, current_user_id,
                   reports, raised, analyzeCalls, generateCalls, displayed,
                   interrupted, args_research, db_initialized, counts,
                   users, profile_tables>>

\* main without a research topic: the welcome panel and init_db
MainInteractive ==
    /\ pc = "start"
    /\ ~Truthy(args_research)
    /\ console' = <<WelcomeMsg>>
    /\ db_initialized' = TRUE
    /\ pc' = "login_menu"
    /\ UNCHANGED <<symptomsFile, symptoms_db, symptoms, keywords, score,
                   verdict, genOutcome, response, sessions, current_user_id,
                   reports, raised, analyzeCalls, generateCalls, displayed,
                   interrupted, args_research, counts,
                   users, profile_tables>>

\* main: one pass of `while not current_user_id`; login or
\* create_new_profile returns a student id, or None and the menu comes again
MainLogin ==
    /\ pc = "login_menu"
    /\ \E id \in StudentIds \cup {None} :
        /\ current_user_id' = id
        /\ pc' = IF id = None THEN "login_menu" ELSE "main_menu"
    /\ console' = <<>>
    /\ UNCHANGED <<symptomsFile, symptoms_db, symptoms, keywords, score,
                   verdict, genOutcome, response, sessions, reports, raised,
                   analyzeCalls, generateCalls, displayed, interrupted,
                   args_research, db_initialized, counts,
                   users, profile_tables>>

\* main: choice "1"; report_symptoms loads the table and prompts
MainReportSymptoms ==
    /\ pc = "main_menu"
    /\ reports < MaxReports
    /\ reports' = reports + 1
    /\ symptoms_db' = load_symptoms_db(symptomsFile)
    /\ symptoms' = NoText
    /\ keywords' = None
    /\ score' = None
    /\ verdict' = None
    /\ genOutcome' = NoCall
    /\ response' = None
    /\ displayed' = None
    /\ console' = <<>>
    /\ pc' = "report_prompt"
    /\ UNCHANGED <<symptomsFile, sessions, current_user_id, raised,
                   analyzeCalls, generateCalls, interrupted, args_research,
                   db_initialized, counts,
                   users, profile_tables>>

\* A report that classifies by the number of matched keywords
PromptSymptoms_verdictFromCount ==
    /\ pc = "report_prompt"
    /\ \E text \in ReportTexts :
        /\ symptoms' = text
        /\ IF ~validate_symptoms(text)
           THEN /\ console' = <<InvalidInputMsg>>
                /\ pc' = "report_prompt"
                /\ UNCHANGED <<keywords, score, verdict, analyzeCalls>>
           ELSE LET r == analyze_symptoms(text, symptoms_db)
                IN  /\ keywords' = r.keywords
                    /\ score' = r.score
                    /\ verdict' = get_verdict(Len(r.keywords))
                    /\ analyzeCalls' = analyzeCalls + 1
                    /\ console' = <<>>
                    /\ pc' = "generate"
    /\ UNCHANGED <<symptomsFile, symptoms_db, genOutcome, response, sessions,
                   current_user_id, reports, raised, generateCalls, displayed,
                   interrupted, args_research, db_initialized, counts,
                   users, profile_tables>>

\* report_symptoms: one pass of the while loop up to the generator call
PromptSymptoms ==
    /\ pc = "report_prompt"
    /\ \E text \in ReportTexts :
        /\ symptoms' = text
        /\ IF ~validate_symptoms(text)
           THEN /\ console' = <<InvalidInputMsg>>
                /\ pc' = "report_prompt"
                /\ UNCHANGED <<keywords, score, verdict, analyzeCalls>>
           ELSE LET r == analyze_symptoms(text, symptoms_db)
                IN  /\ keywords' = r.keywords
                    /\ score' = r.score
                    /\ verdict' = get_verdict(r.score)
                    /\ analyzeCalls' = analyzeCalls + 1
                    /\ console' = <<>>
                    /\ pc' = "generate"
    /\ UNCHANGED <<symptomsFile, symptoms_db, genOutcome, response, sessions,
                   current_user_id, reports, raised, generateCalls, displayed,
                   interrupted, args_research, db_initialized, counts,
                   users, profile_tables>>

\* report_symptoms: get_gemini_response returns, display_response prints
GeminiResponds ==
    /\ pc = "generate"
    /\ \E outcome \in FlowOutcomes :
        /\ genOutcome' = outcome
        /\ response' = get_gemini_response(outcome)
        /\ console' = (IF outcome = GenRaises THEN <<AiErrorMsg>> ELSE <<>>)
                        \o display_response(score)
        /\ displayed' = DisplayTable(symptoms, keywords, score, verdict,
                                     get_gemini_response(outcome))
    /\ generateCalls' = generateCalls + 1
    /\ pc' = "save"
    /\ UNCHANGED <<symptomsFile, symptoms_db, symptoms, keywords, score,
                   verdict, sessions, current_user_id, reports, raised,
                   analyzeCalls, interrupted, args_research, db_initialized,
                   counts,
                   users, profile_tables>>

\* Ctrl-C while get_gemini_response is inside one of its two inner try
\* blocks: the bare except of that block catches the KeyboardInterrupt, the
\* section gets its fallback and report_symptoms goes on
InterruptDuringParse ==
    /\ pc = "generate"
    /\ \E outcome \in FlowOutcomes \ {GenRaises} :
       \E section \in {"remedy", "doctor_advice"} :
        LET parsed == get_gemini_response(outcome)
            r == IF section = "remedy"
                 THEN [parsed EXCEPT !.remedy = ParseRemedyFallback]
                 ELSE [parsed EXCEPT !.doctor_advice = ParseDoctorFallback]
        IN  /\ genOutcome' = outcome
            /\ response' = r
            /\ console' = display_response(score)
            /\ displayed' = DisplayTable(symptoms, keywords, score, verdict, r)
    /\ interrupted' = TRUE
    /\ generateCalls' = generateCalls + 1
    /\ pc' = "save"
    /\ UNCHANGED <<symptomsFile, symptoms_db, symptoms, keywords, score,
                   verdict, sessions, current_user_id, reports, raised,
                   analyzeCalls, args_research, db_initialized, counts,
                   users, profile_tables>>

\* Ctrl-C anywhere else under main's loops (at a prompt, in
\* model.generate_content, in save_log before the commit): nothing catches
\* the KeyboardInterrupt before the handler of __main__
Interrupt ==
    /\ pc \in {"login_menu", "main_menu", "report_prompt", "generate", "save"}
    /\ interrupted' = TRUE
    /\ raised' = KeyboardInterrupt
    /\ console' = <<InterruptedMsg, GoodbyeMsg>>
    /\ pc' = "terminated"
    /\ UNCHANGED <<symptomsFile, symptoms_db, symptoms, keywords, score,
                   verdict, genOutcome, response, sessions, current_user_id,
                   reports, analyzeCalls, generateCalls, displayed,
                   args_research, db_initialized, counts,
                   users, profile_tables>>

\* A save whose failure is caught inside report_symptoms: a message, then
\* back to the menu
SaveLog_caughtLocally ==
    /\ pc = "save"
    /\ \E ok \in BOOLEAN :
        IF ok
        THEN /\ sessions' = Append(sessions,
                                   SessionRow(NextId(sessions), current_user_id,
                                              Now(sessions), symptoms, keywords,
                                              score, verdict, response))
             /\ console' = <<SavedMsg>>
             /\ UNCHANGED raised
        ELSE /\ raised' = SqliteError
             /\ console' = <<TopLevelErrorMsg, TryAgainMsg>>
             /\ UNCHANGED sessions
    /\ pc' = "main_menu"
    /\ UNCHANGED <<symptomsFile, symptoms_db, symptoms, keywords, score,
                   verdict, genOutcome, response, current_user_id, reports,
                   analyzeCalls, generateCalls, displayed, interrupted,
                   args_research, db_initialized, counts,
                   users, profile_tables>>

\* save_log: the INSERT commits, or sqlite3 raises and nothing catches it
\* before the handler of __main__
SaveLog ==
    /\ pc = "save"
    /\ \E ok \in BOOLEAN :
        IF ok
        THEN /\ sessions' = Append(sessions,
                                   SessionRow(NextId(sessions), current_user_id,
                                              Now(sessions), symptoms, keywords,
                                              score, verdict, response))
             /\ console' = <<SavedMsg>>
             /\ pc' = "main_menu"
             /\ UNCHANGED raised
        ELSE /\ raised' = SqliteError
             /\ console' = <<TopLevelErrorMsg, TryAgainMsg>>
             /\ pc' = "terminated"
             /\ UNCHANGED sessions
    /\ UNCHANGED <<symptomsFile, symptoms_db, symptoms, keywords, score,
                   verdict, genOutcome, response, current_user_id, reports,
                   analyzeCalls, generateCalls, displayed, interrupted,
                   args_research, db_initialized, counts,
                   users, profile_tables>>

\* main: choice "6", confirmed
MainExit ==
    /\ pc = "main_menu"
    /\ console' = <<GoodbyeMsg>>
    /\ pc' = "terminated"
    /\ UNCHANGED <<symptomsFile, symptoms_db, symptoms, keywords, score,
                   verdict, genOutcome, response, sessions, current_user_id,
                   reports, raised, analyzeCalls, generateCalls, displayed,
                   interrupted, args_research, db_initialized, counts,
                   users, profile_tables>>

Next ==
    \/ MainResearch
    \/ MainInteractive
    \/ MainLogin
    \/ MainReportSymptoms
    \/ PromptSymptoms
    \/ GeminiResponds
    \/ InterruptDuringParse
    \/ Interrupt
    \/ SaveLog
    \/ MainExit

Spec == Init /\ [][Next]_vars

-----------------------------------------------------------------------------
(* SpecAdvice: get_gemini_response applied to every generator outcome *)

InitAdvice ==
    /\ pc = "advice_input"
    /\ genOutcome \in GenOutcomes
    /\ symptomsFile = None
    /\ symptoms_db = None
    /\ symptoms = NoText
    /\ keywords = None
    /\ score = None
    /\ verdict = None
    /\ response = None
    /\ sessions = <<>>
    /\ console = <<>>
    /\ current_user_id = None
    /\ reports = 0
    /\ raised = None
    /\ analyzeCalls = 0
    /\ generateCalls = 0
    /\ displayed = None
    /\ interrupted = FALSE
    /\ args_research = None
    /\ db_initialized = FALSE
    /\ users = <<>>
    /\ profile_tables = EmptyProfileTables
    /\ counts = None

AdviceParse ==
    /\ pc = "advice_input"
    /\ response' = get_gemini_response(genOutcome)
    /\ pc' = "advice_parsed"
    /\ UNCHANGED <<symptomsFile, symptoms_db, symptoms, keywords, score,
                   verdict, genOutcome, sessions, console, current_user_id,
                   reports, raised, analyzeCalls, generateCalls, displayed,
                   interrupted, args_research, db_initialized, counts,
                   users, profile_tables>>

NextAdvice == AdviceParse

SpecAdvice == InitAdvice /\ [][NextAdvice]_vars

-----------------------------------------------------------------------------
(* SpecScorer: analyze_symptoms and get_verdict applied to every text and    *)
(* table of the bounded sets.                                                  *)

InitScorer ==
    /\ pc = "scorer_input"
    /\ symptoms = NoText
    /\ symptomsFile = None
    /\ symptoms_db \in Tables
    /\ keywords = None
    /\ score = None
    /\ verdict = None
    /\ genOutcome = NoCall
    /\ response = None
    /\ sessions = <<>>
    /\ console = <<>>
    /\ current_user_id = None
    /\ reports = 0
    /\ raised = None
    /\ analyzeCalls = 0
    /\ generateCalls = 0
    /\ displayed = None
    /\ interrupted = FALSE
    /\ args_research = None
    /\ db_initialized = FALSE
    /\ users = <<>>
    /\ profile_tables = EmptyProfileTables
    /\ counts = None

ScorerAnalyze ==
    /\ pc = "scorer_input"
    /\ \E text \in ScorerTexts :
        LET r == analyze_symptoms(text, symptoms_db)
        IN  /\ symptoms' = text
            /\ keywords' = r.keywords
            /\ score' = r.score
    /\ analyzeCalls' = analyzeCalls + 1
    /\ pc' = "scorer_analyzed"
    /\ UNCHANGED <<symptomsFile, symptoms_db, verdict, genOutcome,
                   response, sessions, console, current_user_id, reports,
                   raised, generateCalls, displayed,
                   interrupted, args_research, db_initialized, counts,
                   users, profile_tables>>

ScorerClassify ==
    /\ pc = "scorer_analyzed"
    /\ verdict' = get_verdict(score)
    /\ pc' = "scorer_classified"
    /\ UNCHANGED <<symptomsFile, symptoms_db, symptoms, keywords, score,
                   genOutcome, response, sessions, console, current_user_id,
                   reports, raised, analyzeCalls, generateCalls, displayed,
                   interrupted, args_research, db_initialized, counts,
                   users, profile_tables>>

\* a second call of analyze_symptoms with the same text and the same table:
\* the locals keywords and score start again from [] and 0
ScorerAnalyzeAgain ==
    /\ pc = "scorer_classified"
    /\ LET r == analyze_symptoms(symptoms, symptoms_db)
       IN  /\ keywords' = r.keywords
           /\ score' = r.score
    /\ analyzeCalls' = analyzeCalls + 1
    /\ pc' = "scorer_reanalyzed"
    /\ UNCHANGED <<symptomsFile, symptoms_db, symptoms, verdict, genOutcome,
                   response, sessions, console, current_user_id, reports,
                   raised, generateCalls, displayed, interrupted,
                   args_research, db_initialized, counts,
                   users, profile_tables>>

NextScorer == ScorerAnalyze \/ ScorerClassify \/ ScorerAnalyzeAgain

SpecScorer == InitScorer /\ [][NextScorer]_vars

-----------------------------------------------------------------------------
(* SpecTimeline: show_symptom_timeline applied to every tally of the        *)
(* student's sessions over the days of the window.                           *)

\* range(7, -1, -1): the days of the table, oldest first
WindowDays == 8
Days == 1..WindowDays

\* the width the largest count is scaled to
BarWidth == 20

ZeroDivisionError == "ZeroDivisionError"
TimelinePanel == "Health Timeline"

\* counts after the loop over the query's rows: the number of sessions of
\* the student on each day of the window
DayCounts == [Days -> 0..MaxDayCount]

InitTimeline ==
    /\ pc = "timeline_input"
    /\ counts \in DayCounts
    /\ symptomsFile = None
    /\ symptoms_db = None
    /\ symptoms = NoText
    /\ keywords = None
    /\ score = None
    /\ verdict = None
    /\ genOutcome = NoCall
    /\ response = None
    /\ sessions = <<>>
    /\ console = <<>>
    /\ current_user_id = None
    /\ reports = 0
    /\ raised = None
    /\ analyzeCalls = 0
    /\ generateCalls = 0
    /\ displayed = None
    /\ interrupted = FALSE
    /\ args_research = None
    /\ db_initialized = TRUE
    /\ users = <<>>
    /\ profile_tables = EmptyProfileTables

\* show_symptom_timeline from max_count on: counts.values() has one entry
\* per day and is never empty, so max_count is the largest count, 0
\* included; the division of the first row raises when it is 0 and the
\* error leaves main for the handler of __main__
ShowSymptomTimeline ==
    /\ pc = "timeline_input"
    /\ LET max_count == IF Days # {} THEN Max({counts[d] : d \in Days}) ELSE 1
       IN  IF max_count = 0
           THEN /\ raised' = ZeroDivisionError
                /\ console' = <<TopLevelErrorMsg, TryAgainMsg>>
                /\ pc' = "terminated"
                /\ UNCHANGED displayed
           ELSE /\ displayed' = [d \in Days |->
                                   (counts[d] * BarWidth) \div max_count]
                /\ console' = <<TimelinePanel>>
                /\ pc' = "timeline_shown"
                /\ UNCHANGED raised
    /\ UNCHANGED <<symptomsFile, symptoms_db, symptoms, keywords, score,
                   verdict, genOutcome, response, sessions, current_user_id,
                   reports, analyzeCalls, generateCalls, interrupted,
                   args_research, db_initialized, counts,
                   users, profile_tables>>

NextTimeline == ShowSymptomTimeline

SpecTimeline == InitTimeline /\ [][NextTimeline]_vars

-----------------------------------------------------------------------------
(* SpecStore: delete_last_entry and view_history applied to every sessions  *)
(* table of the bounded set, for the logged-in student.                      *)

\* the students that have rows: the logged-in one and another one
RowStudents == StudentIds \cup {"s2"}

\* timestamps of stored rows, in seconds; two rows can share one
Times == {1, 2}

\* scores of stored rows, one of each band
StoreScores == {2, 3, 6}

\* a row as save_log wrote it, with the verdict get_verdict gave its score
StoredRow(id, student_id, timestamp, s) ==
    SessionRow(id, student_id, timestamp, <<"a", "a", "b">>, <<kw_a>>, s,
               get_verdict(s),
               [remedy |-> <<"x">>, doctor_advice |-> ParseDoctorFallback])

\* student, timestamp and score of a stored row
RowChoices == RowStudents \X Times \X StoreScores

\* the table of n rows chosen by f, with the ids 1..n in insertion order
StoreOf(n, f) == [i \in 1..n |-> StoredRow(i, f[i][1], f[i][2], f[i][3])]

\* SELECT ... WHERE student_id = ?
RowsOf(store, student_id) ==
    SelectSeq(store, LAMBDA row : row.student_id = student_id)

\* ORDER BY timestamp DESC: every order of the rows in which no row comes
\* before a row with a greater timestamp
OrderByTimestampDesc(rows) ==
    LET n == Len(rows)
        orders == {f \in [1..n -> 1..n] :
                     /\ \A i, j \in 1..n : f[i] = f[j] => i = j
                     /\ \A i, j \in 1..n :
                          i < j => rows[f[i]].timestamp >= rows[f[j]].timestamp}
    IN  {[k \in 1..n |-> rows[f[k]]] : f \in orders}

\* LIMIT n
Limit(rows, n) == SubSeq(rows, 1, IF Len(rows) < n THEN Len(rows) ELSE n)

HistoryLimit == 5

GreenCircle == "[green circle]"
YellowCircle == "[yellow circle]"
RedCircle == "[red circle]"

\* view_history: the marker chosen for a stored verdict
verdict_emoji(v) ==
    IF v = "Home Care" THEN GreenCircle
    ELSE IF v = "Monitor" THEN YellowCircle
    ELSE RedCircle

NoLogsMsg == "No health logs found."
StartReportingHint == "Start by reporting your symptoms."
HistoryPanel == "Recent Health History"
HistoryHint == "Showing last 5 entries. Use export to see more."
DeletedMsg == "Last entry deleted successfully."
UpdatedHistoryHint == "You can view your updated health history."
CancelledMsg == "Operation cancelled."
NoEntriesMsg == "No entries to delete."

InitStore ==
    /\ pc = "store_menu"
    /\ \E n \in 0..MaxRows : \E f \in [1..n -> RowChoices] :
           sessions = StoreOf(n, f)
    /\ current_user_id \in StudentIds
    /\ displayed = <<>>
    /\ symptomsFile = None
    /\ symptoms_db = None
    /\ symptoms = NoText
    /\ keywords = None
    /\ score = None
    /\ verdict = None
    /\ genOutcome = NoCall
    /\ response = None
    /\ console = <<>>
    /\ reports = 0
    /\ raised = None
    /\ analyzeCalls = 0
    /\ generateCalls = 0
    /\ interrupted = FALSE
    /\ args_research = None
    /\ db_initialized = TRUE
    /\ users = FlowUsers
    /\ profile_tables = EmptyProfileTables
    /\ counts = None

\* A deletion whose SELECT and DELETE leave out the student
DeleteLastEntry_anyStudent ==
    /\ pc = "store_menu"
    /\ IF sessions = <<>>
       THEN /\ console' = <<NoEntriesMsg, StartReportingHint>>
            /\ UNCHANGED sessions
       ELSE \E ordered \in OrderByTimestampDesc(sessions) :
            \E confirmed \in BOOLEAN :
                LET last_id == Limit(ordered, 1)[1].id
                IN  IF confirmed
                    THEN /\ sessions' = SelectSeq(sessions,
                                            LAMBDA row : ~(row.id = last_id))
                         /\ console' = <<DeletedMsg, UpdatedHistoryHint>>
                    ELSE /\ console' = <<CancelledMsg>>
                         /\ UNCHANGED sessions
    /\ UNCHANGED <<pc, symptomsFile, symptoms_db, symptoms, keywords, score,
                   verdict, genOutcome, response, current_user_id, reports,
                   raised, analyzeCalls, generateCalls, displayed,
                   interrupted, args_research, db_initialized, counts,
                   users, profile_tables>>

\* delete_last_entry: the id of the student's first row by timestamp
\* descending; after Confirm the DELETE of that id for that student
DeleteLastEntry ==
    /\ pc = "store_menu"
    /\ IF RowsOf(sessions, current_user_id) = <<>>
       THEN /\ console' = <<NoEntriesMsg, StartReportingHint>>
            /\ UNCHANGED sessions
       ELSE \E ordered \in OrderByTimestampDesc(RowsOf(sessions, current_user_id)) :
            \E confirmed \in BOOLEAN :
                LET last_id == Limit(ordered, 1)[1].id
                IN  IF confirmed
                    THEN /\ sessions' = SelectSeq(sessions,
                                            LAMBDA row :
                                              ~(/\ row.id = last_id
                                                /\ row.student_id = current_user_id))
                         /\ console' = <<DeletedMsg, UpdatedHistoryHint>>
                    ELSE /\ console' = <<CancelledMsg>>
                         /\ UNCHANGED sessions
    /\ UNCHANGED <<pc, symptomsFile, symptoms_db, symptoms, keywords, score,
                   verdict, genOutcome, response, current_user_id, reports,
                   raised, analyzeCalls, generateCalls, displayed,
                   interrupted, args_research, db_initialized, counts,
                   users, profile_tables>>

\* view_history: the student's five latest rows, each with its marker
ViewHistory ==
    /\ pc = "store_menu"
    /\ IF RowsOf(sessions, current_user_id) = <<>>
       THEN /\ console' = <<NoLogsMsg, StartReportingHint>>
            /\ UNCHANGED displayed
       ELSE \E ordered \in OrderByTimestampDesc(RowsOf(sessions, current_user_id)) :
                LET logs == Limit(ordered, HistoryLimit)
                IN  /\ displayed' =
                          [k \in 1..Len(logs) |->
                              [timestamp |-> logs[k].timestamp,
                               symptoms |-> logs[k].symptoms,
                               score |-> logs[k].score,
                               marker |-> verdict_emoji(logs[k].verdict),
                               verdict |-> logs[k].verdict]]
                    /\ console' = <<HistoryPanel, HistoryHint>>
    /\ UNCHANGED <<pc, symptomsFile, symptoms_db, symptoms, keywords, score,
                   verdict, genOutcome, response, sessions, current_user_id,
                   reports, raised, analyzeCalls, generateCalls, interrupted,
                   args_research, db_initialized, counts,
                   users, profile_tables>>

NextStore == DeleteLastEntry \/ ViewHistory

SpecStore == InitStore /\ [][NextStore]_vars

-----------------------------------------------------------------------------
(* SpecAccounts: main's account loop (login, create_new_profile) and the    *)
(* writes of the main menu that carry the id of the logged-in student.       *)

\* the characters of the strings typed at the prompts
CharsOf(str) ==
    CASE str = "" -> <<>>
      [] str = " " -> <<" ">>
      [] str = "s1" -> <<"s", "1">>
      [] str = "s2" -> <<"s", "2">>
      [] str = "n" -> <<"n">>
      [] str = " n" -> <<" ", "n">>
      [] str = "r" -> <<"r">>

\* `not value.strip()`
IsBlank(str) == Strip(CharsOf(str)) = <<>>

IdInputs == {"", " ", "s1", "s2"}
NameInputs == {" ", "n", " n"}
RoomInputs == {"", "r"}
GenderChoices == {"Male", "Female", "Other"}

\* what is typed at the age prompt
AgeTexts ==
    { <<"x">>, <<"-", "1">>, <<"0">>, <<"1", "2", "0">>, <<"1", "2", "1">> }

DigitValue(c) ==
    CASE c = "0" -> 0 [] c = "1" -> 1 [] c = "2" -> 2 [] c = "3" -> 3
      [] c = "4" -> 4 [] c = "5" -> 5 [] c = "6" -> 6 [] c = "7" -> 7
      [] c = "8" -> 8 [] c = "9" -> 9

IsDigitChar(c) == c \in {"0", "1", "2", "3", "4", "5", "6", "7", "8", "9"}

\* whether int(text) returns: an optional minus sign and one digit or more
IsIntText(text) ==
    LET digits == IF text # <<>> /\ Head(text) = "-" THEN Tail(text) ELSE text
    IN  /\ digits # <<>>
        /\ \A i \in 1..Len(digits) : IsDigitChar(digits[i])

RECURSIVE DigitsValue(_, _)
\* the decimal value of a digit sequence, from acc
DigitsValue(digits, acc) ==
    IF digits = <<>> THEN acc
    ELSE DigitsValue(Tail(digits), 10 * acc + DigitValue(Head(digits)))

\* int(text) for a text that IsIntText accepts
IntOf(text) ==
    IF Head(text) = "-" THEN 0 - DigitsValue(Tail(text), 0)
    ELSE DigitsValue(text, 0)

\* the age range create_new_profile accepts
AgeLow == 0
AgeHigh == 120

\* SELECT student_id FROM users WHERE student_id = ?
IsRegistered(table, student_id) ==
    \E i \in 1..Len(table) : table[i].student_id = student_id

NameEmptyMsg == "Full name cannot be empty."
IdEmptyMsg == "Student ID cannot be empty."
AlreadyRegisteredMsg == "This Student ID is already registered."
AgeRangeMsg == "Please enter a valid age between 0 and 120."
AgeNotNumberMsg == "Please enter a valid number for age."
RoomEmptyMsg == "Hostel/Room number cannot be empty."
ProfileCreatedMsg == "Profile created successfully!"
DatabaseErrorMsg == "Database error"
WelcomeBackMsg == "Welcome back"
IdNotFoundMsg == "Student ID not found."
ConditionAddedMsg == "Medical condition added successfully!"
AllergyAddedMsg == "Allergy/condition added successfully!"
ContactAddedMsg == "Emergency contact added successfully!"

\* the database when the program starts: no student yet, or the student
\* "s2" with one stored report
AccountStores ==
    { [users |-> <<>>, sessions |-> <<>>],
      [users |-> <<UserRow("s2", "n", 20, "Other", "r", 1, 1)>>,
       sessions |-> <<StoredRow(1, "s2", 1, 3)>>] }

InitAccounts ==
    /\ pc = "account_menu"
    /\ \E store \in AccountStores :
        /\ users = store.users
        /\ sessions = store.sessions
    /\ profile_tables = EmptyProfileTables
    /\ current_user_id = None
    /\ symptomsFile = None
    /\ symptoms_db = None
    /\ symptoms = NoText
    /\ keywords = None
    /\ score = None
    /\ verdict = None
    /\ genOutcome = NoCall
    /\ response = None
    /\ console = <<>>
    /\ reports = 0
    /\ raised = None
    /\ analyzeCalls = 0
    /\ generateCalls = 0
    /\ displayed = None
    /\ interrupted = FALSE
    /\ args_research = None
    /\ db_initialized = TRUE
    /\ counts = None

\* main: one pass of `while not current_user_id` up to the call of login
\* or create_new_profile
AccountChoice ==
    /\ pc = "account_menu"
    /\ \E choice \in {"1", "2"} :
        pc' = IF choice = "1" THEN "login" ELSE "create_profile"
    /\ console' = <<>>
    /\ UNCHANGED <<symptomsFile, symptoms_db, symptoms, keywords, score,
                   verdict, genOutcome, response, sessions, current_user_id,
                   reports, raised, analyzeCalls, generateCalls, displayed,
                   interrupted, args_research, db_initialized, counts,
                   users, profile_tables>>

\* A login that returns the typed id whether or not it is registered
LoginAccount_unknownId ==
    /\ pc = "login"
    /\ \E student_id \in IdInputs : \E t \in Times :
        /\ users' = [i \in 1..Len(users) |->
                        IF users[i].student_id = student_id
                        THEN [users[i] EXCEPT !.last_login = t]
                        ELSE users[i]]
        /\ console' = <<WelcomeBackMsg>>
        /\ current_user_id' = student_id
        /\ pc' = "main_menu"
    /\ UNCHANGED <<symptomsFile, symptoms_db, symptoms, keywords, score,
                   verdict, genOutcome, response, sessions, reports, raised,
                   analyzeCalls, generateCalls, displayed, interrupted,
                   args_research, db_initialized, counts, profile_tables>>

\* login: one pass of its loop.  A registered id gets its last_login
\* updated and is returned to main; for an unknown id the user chooses
\* between create_new_profile and another pass
LoginAccount ==
    /\ pc = "login"
    /\ \E student_id \in IdInputs :
        IF IsRegistered(users, student_id)
        THEN \E t \in Times :
                /\ users' = [i \in 1..Len(users) |->
                                IF users[i].student_id = student_id
                                THEN [users[i] EXCEPT !.last_login = t]
                                ELSE users[i]]
                /\ console' = <<WelcomeBackMsg>>
                /\ current_user_id' = student_id
                /\ pc' = "main_menu"
        ELSE \E create \in BOOLEAN :
                /\ console' = <<IdNotFoundMsg>>
                /\ pc' = IF create THEN "create_profile" ELSE "login"
                /\ UNCHANGED <<users, current_user_id>>
    /\ UNCHANGED <<symptomsFile, symptoms_db, symptoms, keywords, score,
                   verdict, genOutcome, response, sessions, reports, raised,
                   analyzeCalls, generateCalls, displayed, interrupted,
                   args_research, db_initialized, counts, profile_tables>>

\* A creation that skips the lookup and writes with INSERT OR REPLACE
CreateNewProfile_replace ==
    /\ pc = "create_profile"
    /\ LET again(msg) == /\ console' = <<msg>>
                         /\ pc' = "create_profile"
                         /\ UNCHANGED <<users, current_user_id>>
       IN  \E full_name \in NameInputs :
            IF IsBlank(full_name) THEN again(NameEmptyMsg)
            ELSE \E student_id \in IdInputs :
            IF IsBlank(student_id) THEN again(IdEmptyMsg)
            ELSE \E age \in AgeTexts :
            IF ~IsIntText(age) THEN again(AgeNotNumberMsg)
            ELSE IF IntOf(age) < AgeLow \/ IntOf(age) > AgeHigh
                 THEN again(AgeRangeMsg)
            ELSE \E gender \in GenderChoices : \E hostel_room \in RoomInputs :
            IF IsBlank(hostel_room) THEN again(RoomEmptyMsg)
            ELSE \E t \in Times : \E ok \in BOOLEAN :
            IF ok
            THEN /\ users' = Append(SelectSeq(users,
                                LAMBDA row : row.student_id # student_id),
                        UserRow(student_id, full_name, IntOf(age), gender,
                                hostel_room, t, t))
                 /\ console' = <<ProfileCreatedMsg>>
                 /\ current_user_id' = student_id
                 /\ pc' = "main_menu"
            ELSE /\ console' = <<DatabaseErrorMsg, TryAgainMsg>>
                 /\ current_user_id' = None
                 /\ pc' = "account_menu"
                 /\ UNCHANGED users
    /\ UNCHANGED <<symptomsFile, symptoms_db, symptoms, keywords, score,
                   verdict, genOutcome, response, sessions, reports, raised,
                   analyzeCalls, generateCalls, displayed, interrupted,
                   args_research, db_initialized, counts, profile_tables>>

\* create_new_profile: one pass of its input loop, prompt by prompt, a
\* failed check ending the pass; when every check passes, the INSERT, which
\* commits or raises sqlite3.Error
CreateNewProfile ==
    /\ pc = "create_profile"
    /\ LET again(msg) == /\ console' = <<msg>>
                         /\ pc' = "create_profile"
                         /\ UNCHANGED <<users, current_user_id>>
       IN  \E full_name \in NameInputs :
            IF IsBlank(full_name) THEN again(NameEmptyMsg)
            ELSE \E student_id \in IdInputs :
            IF IsBlank(student_id) THEN again(IdEmptyMsg)
            ELSE IF IsRegistered(users, student_id)
                 THEN again(AlreadyRegisteredMsg)
            ELSE \E age \in AgeTexts :
            IF ~IsIntText(age) THEN again(AgeNotNumberMsg)
            ELSE IF IntOf(age) < AgeLow \/ IntOf(age) > AgeHigh
                 THEN again(AgeRangeMsg)
            ELSE \E gender \in GenderChoices : \E hostel_room \in RoomInputs :
            IF IsBlank(hostel_room) THEN again(RoomEmptyMsg)
            ELSE \E t \in Times : \E ok \in BOOLEAN :
            IF ok
            THEN /\ users' = Append(users,
                        UserRow(student_id, full_name, IntOf(age), gender,
                                hostel_room, t, t))
                 /\ console' = <<ProfileCreatedMsg>>
                 /\ current_user_id' = student_id
                 /\ pc' = "main_menu"
            ELSE /\ console' = <<DatabaseErrorMsg, TryAgainMsg>>
                 /\ current_user_id' = None
                 /\ pc' = "account_menu"
                 /\ UNCHANGED users
    /\ UNCHANGED <<symptomsFile, symptoms_db, symptoms, keywords, score,
                   verdict, genOutcome, response, sessions, reports, raised,
                   analyzeCalls, generateCalls, displayed, interrupted,
                   args_research, db_initialized, counts, profile_tables>>

\* main: choice "1" carried through to the commit of save_log, for one
\* valid text and one table: report_symptoms(current_user_id)
ReportSymptomsSaved ==
    /\ pc = "main_menu"
    /\ reports < MaxReports
    /\ reports' = reports + 1
    /\ \E outcome \in {GenRaises, <<RemedyLabel, "x">>} :
        LET text == <<"a", "a", "b">>
            r == analyze_symptoms(text, <<[keywords |-> <<kw_a, kw_ab>>,
                                           weight |-> 3]>>)
        IN  sessions' = Append(sessions,
                               SessionRow(NextId(sessions), current_user_id,
                                          Now(sessions), text, r.keywords,
                                          r.score, get_verdict(r.score),
                                          get_gemini_response(outcome)))
    /\ console' = <<SavedMsg>>
    /\ UNCHANGED <<pc, symptomsFile, symptoms_db, symptoms, keywords, score,
                   verdict, genOutcome, response, current_user_id, raised,
                   analyzeCalls, generateCalls, displayed, interrupted,
                   args_research, db_initialized, counts, users,
                   profile_tables>>

\* the rows written to the three profile tables
ProfileRowCount ==
    Len(profile_tables.medical_history) + Len(profile_tables.allergies)
        + Len(profile_tables.emergency_contacts)

\* manage_medical_history(current_user_id), choice "1"
AddMedicalCondition ==
    /\ pc = "main_menu"
    /\ ProfileRowCount < MaxRecords
    /\ profile_tables' =
          [profile_tables EXCEPT !.medical_history =
              Append(@, [student_id |-> current_user_id, condition |-> "c"])]
    /\ console' = <<ConditionAddedMsg>>
    /\ UNCHANGED <<pc, symptomsFile, symptoms_db, symptoms, keywords, score,
                   verdict, genOutcome, response, sessions, current_user_id,
                   reports, raised, analyzeCalls, generateCalls, displayed,
                   interrupted, args_research, db_initialized, counts, users>>

\* manage_allergies(current_user_id), choice "1"
AddAllergy ==
    /\ pc = "main_menu"
    /\ ProfileRowCount < MaxRecords
    /\ profile_tables' =
          [profile_tables EXCEPT !.allergies =
              Append(@, [student_id |-> current_user_id, name |-> "c"])]
    /\ console' = <<AllergyAddedMsg>>
    /\ UNCHANGED <<pc, symptomsFile, symptoms_db, symptoms, keywords, score,
                   verdict, genOutcome, response, sessions, current_user_id,
                   reports, raised, analyzeCalls, generateCalls, displayed,
                   interrupted, args_research, db_initialized, counts, users>>

\* manage_emergency_contacts(current_user_id), choice "1"
AddEmergencyContact ==
    /\ pc = "main_menu"
    /\ ProfileRowCount < MaxRecords
    /\ profile_tables' =
          [profile_tables EXCEPT !.emergency_contacts =
              Append(@, [student_id |-> current_user_id, name |-> "c"])]
    /\ console' = <<ContactAddedMsg>>
    /\ UNCHANGED <<pc, symptomsFile, symptoms_db, symptoms, keywords, score,
                   verdict, genOutcome, response, sessions, current_user_id,
                   reports, raised, analyzeCalls, generateCalls, displayed,
                   interrupted, args_research, db_initialized, counts, users>>

\* the program is started again on the same database: main up to its
\* account loop; to keep the stores bounded, the runs that are followed by
\* another run are those that wrote no report and no profile record
RunAgain ==
    /\ pc = "terminated"
    /\ reports = 0
    /\ ProfileRowCount = 0
    /\ current_user_id' = None
    /\ console' = <<WelcomeMsg>>
    /\ pc' = "account_menu"
    /\ UNCHANGED <<symptomsFile, symptoms_db, symptoms, keywords, score,
                   verdict, genOutcome, response, sessions, reports, raised,
                   analyzeCalls, generateCalls, displayed, interrupted,
                   args_research, db_initialized, counts, users,
                   profile_tables>>

NextAccounts ==
    \/ AccountChoice
    \/ LoginAccount
    \/ CreateNewProfile
    \/ ReportSymptomsSaved
    \/ AddMedicalCondition
    \/ AddAllergy
    \/ AddEmergencyContact
    \/ MainExit
    \/ RunAgain

SpecAccounts == InitAccounts /\ [][NextAccounts]_vars

-----------------------------------------------------------------------------
(* Properties of the scorer and the classifier (SpecScorer) *)

Analyzed == pc \in {"scorer_analyzed", "scorer_classified", "scorer_reanalyzed"}

\* every (condition, keyword position) of a table
PairsOf(db) ==
    UNION {{<<c, i>> : i \in 1..Len(db[c].keywords)} : c \in 1..Len(db)}

KeywordAt(db, p) == db[p[1]].keywords[p[2]]

\* pairs whose keyword is a substring of the lower-cased text
MatchPairs(text, db) ==
    {p \in PairsOf(db) : IsSubstring(KeywordAt(db, p), Lower(text))}

\* pairs whose keyword occurs in the text when case is ignored on both sides
CaseInsensitivePairs(text, db) ==
    {p \in PairsOf(db) : IsSubstring(Lower(KeywordAt(db, p)), Lower(text))}

RECURSIVE SumWeights(_, _)
SumWeights(db, P) ==
    IF P = {} THEN 0
    ELSE LET p == CHOOSE x \in P : TRUE
         IN  db[p[1]].weight + SumWeights(db, P \ {p})

\* C1: the score is the sum of the condition weight over every
\* (condition, keyword) pair whose keyword is a substring of the lower-cased
\* text; a keyword listed under two conditions counts once per condition.
ScoreIsSumOfMatchedWeights ==
    Analyzed => score = SumWeights(symptoms_db, MatchPairs(symptoms, symptoms_db))

\* C1 witness: one keyword string listed under two conditions matches, and
\* both weights are in the score.
SharedKeywordCountedTwice ==
    /\ Analyzed
    /\ Len(symptoms_db) = 2
    /\ symptoms_db[1].keywords = <<kw_ab>>
    /\ symptoms_db[2].keywords = <<kw_ab>>
    /\ symptoms_db[1].weight = 3
    /\ symptoms_db[2].weight = 3
    /\ IsSubstring(kw_ab, Lower(symptoms))
    /\ score = 6

\* C2: get_verdict maps every score to exactly one of three bands: below 3
\* Home Care, 3 to 5 Monitor, above 5 Urgent Care; 2, 3, 5 and 6 fall as the
\* boundaries say and negative scores are Home Care.
VerdictBands ==
    /\ get_verdict(2) = HomeCare
    /\ get_verdict(3) = Monitor
    /\ get_verdict(5) = Monitor
    /\ get_verdict(6) = UrgentCare
    /\ pc = "scorer_classified" =>
        /\ verdict \in {HomeCare, Monitor, UrgentCare}
        /\ (verdict = HomeCare) <=> (score < 3)
        /\ (verdict = Monitor) <=> (3 <= score /\ score <= 5)
        /\ (verdict = UrgentCare) <=> (score > 5)

\* C2 witness: a boundary score has been classified.
BoundaryScoreClassified ==
    /\ pc = "scorer_classified"
    /\ score = 3
    /\ verdict = Monitor

\* C3: when no keyword of the table occurs in the text with case ignored,
\* the matched list is empty and the score is 0.
NoMatchGivesEmptyAndZero ==
    (Analyzed /\ CaseInsensitivePairs(symptoms, symptoms_db) = {}) =>
        (keywords = <<>> /\ score = 0)

\* C3 witness: a non-empty table and a non-empty text without any match.
NoMatchAnalyzed ==
    /\ Analyzed
    /\ Len(symptoms_db) = 2
    /\ Len(symptoms) = MaxTextLen
    /\ CaseInsensitivePairs(symptoms, symptoms_db) = {}
    /\ keywords = <<>>
    /\ score = 0

\* the table with every keyword lower-cased
LowerKeywords(db) ==
    [c \in 1..Len(db) |->
        [keywords |-> [i \in 1..Len(db[c].keywords) |-> Lower(db[c].keywords[i])],
         weight |-> db[c].weight]]

\* C8: matching ignores letter case on both sides: the matching pairs are
\* those whose keyword occurs in the text with case ignored, so lower-casing
\* the keywords of the table changes neither the matches nor the score.
KeywordCaseIsIgnored ==
    Analyzed =>
        /\ Len(keywords) = Cardinality(CaseInsensitivePairs(symptoms, symptoms_db))
        /\ score = analyze_symptoms(symptoms, LowerKeywords(symptoms_db)).score

\* position of a pair in table iteration order, counted among a set of pairs
Before(p, q) == p[1] < q[1] \/ (p[1] = q[1] /\ p[2] < q[2])
RankIn(P, p) == Cardinality({q \in P : Before(q, p)}) + 1

\* reorderings of a table: its conditions permuted, or the keywords of one
\* condition permuted (every reordering is a composition of these)
Perms(n) == {f \in [1..n -> 1..n] : \A i, j \in 1..n : f[i] = f[j] => i = j}
KeywordReorderings(e) ==
    {[keywords |-> [i \in 1..Len(e.keywords) |-> e.keywords[f[i]]],
      weight |-> e.weight] : f \in Perms(Len(e.keywords))}
Reorderings(db) ==
    {[c \in 1..Len(db) |-> db[f[c]]] : f \in Perms(Len(db))}
    \cup UNION {{[db EXCEPT ![c] = e] : e \in KeywordReorderings(db[c])} :
                   c \in 1..Len(db)}

\* C9: matched_keywords lists the matching keywords in table iteration
\* order, one entry per matching (condition, keyword) pair; reordering the
\* conditions or the keywords of the table never changes the score.
MatchedInTableOrder ==
    Analyzed =>
        LET P == MatchPairs(symptoms, symptoms_db)
        IN  /\ Len(keywords) = Cardinality(P)
            /\ \A p \in P : keywords[RankIn(P, p)] = KeywordAt(symptoms_db, p)
            /\ \A t \in Reorderings(symptoms_db) :
                   analyze_symptoms(symptoms, t).score = score

\* C9 witness: two different keywords match, in the order of the table, and
\* the keyword shared by the two conditions appears twice.
TwoConditionsMatchedInOrder ==
    /\ Analyzed
    /\ Len(symptoms_db) = 2
    /\ symptoms_db[1].keywords = <<kw_ab, kw_a>>
    /\ symptoms_db[2].keywords = <<kw_a, kw_ab>>
    /\ keywords = <<kw_ab, kw_a, kw_a, kw_ab>>

-----------------------------------------------------------------------------
(* Properties of get_gemini_response (SpecAdvice) *)

HasLabel(t, label) == \E i \in 1..Len(t) : t[i] = label

\* the text after the first `label`, up to the next token of `stops` or the
\* end, without its surrounding blanks
SectionAfter(t, label, stops) ==
    LET p == CHOOSE i \in 1..Len(t) :
                 t[i] = label /\ \A j \in 1..(i - 1) : t[j] # label
        ends == {j \in (p + 1)..Len(t) : t[j] \in stops} \cup {Len(t) + 1}
        q == CHOOSE j \in ends : \A k \in ends : j <= k
    IN  Strip(SubSeq(t, p + 1, q - 1))

\* C5: when the generator returns text, a missing section label gives the
\* parse fallback of exactly that section and a present label keeps the text
\* of its section, in all four combinations of present and missing labels.
MissingLabelFallsBack ==
    (pc = "advice_parsed" /\ genOutcome # GenRaises) =>
        /\ ~HasLabel(genOutcome, RemedyLabel) =>
               response.remedy = ParseRemedyFallback
        /\ HasLabel(genOutcome, RemedyLabel) =>
               response.remedy =
                   SectionAfter(genOutcome, RemedyLabel, {RemedyLabel, DoctorLabel})
        /\ ~HasLabel(genOutcome, DoctorLabel) =>
               response.doctor_advice = ParseDoctorFallback
        /\ HasLabel(genOutcome, DoctorLabel) =>
               response.doctor_advice =
                   SectionAfter(genOutcome, DoctorLabel, {DoctorLabel})

\* C5 witness: the remedy label is present and the doctor label is missing.
RemedyKeptDoctorFallback ==
    /\ pc = "advice_parsed"
    /\ genOutcome = <<RemedyLabel, Blank, "x">>
    /\ response.remedy = <<"x">>
    /\ response.doctor_advice = ParseDoctorFallback

-----------------------------------------------------------------------------
(* Properties of the report flow (Spec) *)

\* a row the sessions table held when the program started
IsPriorRow(row) ==
    \E p \in FlowPriorStores : \E i \in 1..Len(p) : row = p[i]

\* the rows written in this run, in insertion order
NewRows == SelectSeq(sessions, LAMBDA row : ~IsPriorRow(row))

ErrorFallback ==
    [remedy |-> ErrorRemedyFallback, doctor_advice |-> ErrorDoctorFallback]

\* C4: when the generator raises, both fields are the error fallback
\* strings, the failure does not reach the handler of __main__, and the
\* report that completes persists a record with the score and the verdict
\* computed before the failure.
GeneratorFailureFallsBack ==
    genOutcome = GenRaises =>
        /\ pc \in {"save", "main_menu", "terminated"}
        /\ response = ErrorFallback
        /\ raised \in {None, SqliteError, KeyboardInterrupt}
        /\ raised = SqliteError => Len(NewRows) = reports - 1
        /\ pc = "terminated" /\ raised = None => console = <<GoodbyeMsg>>
        /\ pc = "main_menu" \/ Len(NewRows) = reports =>
               /\ Len(NewRows) = reports
               /\ NewRows[reports].score = score
               /\ NewRows[reports].verdict = verdict
               /\ NewRows[reports].gemini_response = JsonDumps(ErrorFallback)

\* C4 witness: the generator raised and the record of that report is stored.
RecordPersistedAfterGeneratorFailure ==
    /\ pc = "main_menu"
    /\ genOutcome = GenRaises
    /\ Len(NewRows) = reports
    /\ NewRows[reports].score = 6
    /\ NewRows[reports].verdict = UrgentCare
    /\ NewRows[reports].gemini_response = JsonDumps(ErrorFallback)

\* a text the validator lets through
TextOk(text) ==
    /\ Len(text) >= MinSymptomsLen
    /\ \A i \in 1..Len(text) : text[i] \notin Digits

\* C6: the validator runs before the scorer: a text shorter than 3
\* characters or with a digit is rejected and the prompt repeats, without a
\* call of analyze_symptoms, a call of the generator or a record; only a
\* text that passed validation is analysed.
ValidatorGatesScorer ==
    /\ pc = "report_prompt" =>
        /\ analyzeCalls = reports - 1
        /\ generateCalls = reports - 1
        /\ Len(NewRows) = reports - 1
        /\ symptoms # NoText => (~TextOk(symptoms) /\ console = <<InvalidInputMsg>>)
    /\ pc \in {"generate", "save"} =>
        /\ TextOk(symptoms)
        /\ analyzeCalls = reports
    /\ \A r \in 1..Len(sessions) : TextOk(sessions[r].symptoms)

\* C6 witness: a text with a digit has been rejected and the prompt repeats.
DigitTextRejected ==
    /\ pc = "report_prompt"
    /\ symptoms = <<"a", "1", "b">>
    /\ console = <<InvalidInputMsg>>
    /\ analyzeCalls = 0

\* C7: when the table fails to load, the report flow runs with an empty
\* table: every valid text gives no matched keyword, score 0 and Home Care.
LoadFailureGivesEmptyTable ==
    ~symptomsFile.loads =>
        /\ pc \in {"report_prompt", "generate", "save"} => symptoms_db = <<>>
        /\ pc \in {"generate", "save"} =>
               (keywords = <<>> /\ score = 0 /\ verdict = HomeCare)
        /\ \A r \in 1..Len(NewRows) :
               /\ NewRows[r].keywords = JsonDumps(<<>>)
               /\ NewRows[r].score = 0
               /\ NewRows[r].verdict = HomeCare

\* C7 witness: the load failed and a report has been completed and stored.
ReportCompletedAfterLoadFailure ==
    /\ ~symptomsFile.loads
    /\ pc = "main_menu"
    /\ Len(NewRows) = 1
    /\ NewRows[1].score = 0
    /\ NewRows[1].verdict = HomeCare

\* C10 as stated: a failed save is a failure of that operation only, so the
\* program goes on with no record added and an error message shown.
SaveFailureConfinedToOperation ==
    raised = SqliteError =>
        /\ pc # "terminated"
        /\ Len(NewRows) = reports - 1
        /\ console = <<TopLevelErrorMsg, TryAgainMsg>>

\* C10 amended: a failed save is not retried and adds no record; the error
\* reaches the handler of __main__, which shows an error message, and the
\* run ends there.
SaveFailureEndsRun ==
    raised = SqliteError =>
        /\ pc = "terminated"
        /\ Len(NewRows) = reports - 1
        /\ generateCalls = reports
        /\ console = <<TopLevelErrorMsg, TryAgainMsg>>

\* C10 witness: the save of the first report failed.
SaveFailed ==
    /\ raised = SqliteError
    /\ pc = "terminated"
    /\ reports = 1
    /\ generateCalls = 1
    /\ NewRows = <<>>
    /\ console = <<TopLevelErrorMsg, TryAgainMsg>>


-----------------------------------------------------------------------------
(* Further properties of the scorer (SpecScorer) *)

NonNegativeWeights(db) == \A c \in 1..Len(db) : db[c].weight >= 0

\* C13 as stated: the score returned by analyze_symptoms is never negative,
\* for every text and every table.
ScoreNeverNegative ==
    Analyzed => score >= 0

\* C13 amended: the score returned by analyze_symptoms is never negative
\* when every weight of the table is non-negative; it is the sum of the
\* weights whatever their sign.
ScoreNonNegativeForNonNegativeWeights ==
    (Analyzed /\ NonNegativeWeights(symptoms_db)) => score >= 0

\* C13 witness: a table of two conditions with non-negative weights, one
\* keyword missed and two matched, scored 6.
NonNegativeTableScored ==
    /\ Analyzed
    /\ Len(symptoms_db) = 2
    /\ NonNegativeWeights(symptoms_db)
    /\ Len(keywords) = 2
    /\ \E c \in 1..2 : \E i \in 1..Len(symptoms_db[c].keywords) :
           ~IsSubstring(symptoms_db[c].keywords[i], Lower(symptoms))
    /\ score = 6

-----------------------------------------------------------------------------
(* Further properties of the report flow (Spec) *)

\* C11: the sessions table changes only when a report completes; that step
\* appends exactly one row, keyed by the logged-in student, whose text,
\* keywords, score, verdict and advice are the values analyze_symptoms,
\* get_verdict and get_gemini_response computed for this report and
\* display_response showed, and it leaves the rows before it unchanged.
ReportAppendsOneExactRecord ==
    [][/\ sessions' # sessions => (pc = "save" /\ pc' = "main_menu")
       /\ (pc = "save" /\ pc' = "main_menu") =>
            /\ Len(sessions') = Len(sessions) + 1
            /\ SubSeq(sessions', 1, Len(sessions)) = sessions
            /\ LET row == sessions'[Len(sessions')]
                   computed == ScanConditions(symptoms_db, 1, Lower(symptoms),
                                              [keywords |-> <<>>, score |-> 0])
               IN  /\ row.student_id = current_user_id
                   /\ row.symptoms = symptoms
                   /\ row.keywords = [json |-> computed.keywords]
                   /\ row.score = computed.score
                   /\ row.verdict = get_verdict(computed.score)
                   /\ row.gemini_response = [json |-> response]
                   /\ displayed.symptoms = row.symptoms
                   /\ displayed.keywords = computed.keywords
                   /\ displayed.score = row.score
                   /\ displayed.verdict = row.verdict
                   /\ displayed.remedy = response.remedy
                   /\ displayed.doctor_advice = response.doctor_advice]_vars

\* C11 witness: a report of the logged-in student with two matched keywords
\* was stored after the row of another student, which is still the first row.
RecordAppendedAfterPriorRow ==
    /\ pc = "main_menu"
    /\ Len(sessions) = 2
    /\ sessions[1].student_id = "s2"
    /\ sessions[1].id = 1
    /\ sessions[2].student_id = current_user_id
    /\ sessions[2].id = 2
    /\ sessions[2].symptoms = <<"a", "a", "b">>
    /\ sessions[2].keywords = [json |-> <<kw_a, kw_ab>>]
    /\ sessions[2].score = 6

\* C12: in a report the verdict is get_verdict of the score analyze_symptoms
\* returned for the entered text and the loaded table; the verdict displayed
\* and the verdict stored are that verdict, so two records with equal scores
\* have equal verdicts.
VerdictDerivedFromScoreOnly ==
    /\ pc \in {"generate", "save"} =>
        /\ score = analyze_symptoms(symptoms, load_symptoms_db(symptomsFile)).score
        /\ verdict = get_verdict(score)
    /\ pc = "save" =>
        /\ displayed.score = score
        /\ displayed.verdict = get_verdict(score)
    /\ \A r \in 1..Len(sessions) :
        sessions[r].verdict = get_verdict(sessions[r].score)
    /\ \A r1, r2 \in 1..Len(sessions) :
        sessions[r1].score = sessions[r2].score =>
            sessions[r1].verdict = sessions[r2].verdict

\* C12 witness: two records with the same score and different texts, keywords
\* and advice carry the same verdict.
EqualScoresEqualVerdicts ==
    /\ pc = "main_menu"
    /\ Len(sessions) = 2
    /\ sessions[1].score = sessions[2].score
    /\ sessions[1].symptoms # sessions[2].symptoms
    /\ sessions[1].keywords # sessions[2].keywords
    /\ sessions[1].gemini_response # sessions[2].gemini_response
    /\ sessions[2].verdict = Monitor

\* what the last step printed, as a set
Printed == {console[i] : i \in 1..Len(console)}

\* C15 as stated: when display_response has printed, the urgent panel and
\* the seek-medical-attention warning are on the screen if and only if the
\* verdict is Urgent Care, and for an Urgent Care verdict the attention
\* signal (the bell of play_alert_sound) has fired.
UrgentReportSignalled ==
    pc = "save" =>
        /\ ({UrgentPanel, UrgentWarning} \subseteq Printed) <=> (verdict = UrgentCare)
        /\ ({UrgentPanel, UrgentWarning} \cap Printed # {}) => (verdict = UrgentCare)
        /\ verdict = UrgentCare => Bell \in Printed

\* C16 as stated: a failure raised under main's loops, a user interrupt
\* included, reaches the handler of __main__, which prints its message, and
\* the run ends.
FailureReachesTopLevelHandler ==
    /\ raised # None =>
        /\ pc = "terminated"
        /\ console \in {<<TopLevelErrorMsg, TryAgainMsg>>,
                        <<InterruptedMsg, GoodbyeMsg>>}
    /\ interrupted =>
        /\ raised = KeyboardInterrupt
        /\ pc = "terminated"
        /\ console = <<InterruptedMsg, GoodbyeMsg>>

\* C17: a run started with a research topic only prints the lookup of that
\* topic or the not-found lines and returns: init_db does not run, nobody
\* logs in, no report starts, analyze_symptoms, get_verdict and the generator
\* are not called, and the sessions table is never written.
ResearchBypassesCore ==
    /\ [](Truthy(args_research) =>
            /\ pc \in {"start", "terminated"}
            /\ ~db_initialized
            /\ current_user_id = None
            /\ reports = 0
            /\ analyzeCalls = 0
            /\ generateCalls = 0
            /\ verdict = None
            /\ response = None
            /\ pc = "terminated" =>
                 console = (IF args_research \in HEALTH_TOPICS
                            THEN <<ResearchTitle, args_research,
                                   PreventionPanel, FirstAidPanel>>
                            ELSE <<TopicNotFoundMsg, args_research,
                                   AvailableTopicsMsg>>))
    /\ [][Truthy(args_research) => sessions' = sessions]_vars

\* C17 witness: the run with --research fever has shown the topic and
\* returned, and the stored row of an earlier run is untouched.
ResearchTopicShown ==
    /\ args_research = "fever"
    /\ pc = "terminated"
    /\ console = <<ResearchTitle, "fever", PreventionPanel, FirstAidPanel>>
    /\ Len(sessions) = 1
    /\ ~db_initialized


-----------------------------------------------------------------------------
(* Properties of the timeline (SpecTimeline) *)

\* C18 as stated: show_symptom_timeline completes without an error for
\* every tally, the tally without any session included; every bar is 0 to
\* 20 characters long and a day with the largest count has a bar of 20.
TimelineAlwaysCompletes ==
    pc # "timeline_input" =>
        /\ raised = None
        /\ pc = "timeline_shown"
        /\ \A d \in Days :
            /\ displayed[d] >= 0
            /\ displayed[d] <= 20
            /\ (\A e \in Days : counts[e] <= counts[d]) => displayed[d] = 20


-----------------------------------------------------------------------------
(* Properties of the stored records (SpecStore) *)

\* a sequence without its i-th element
RemoveAt(seq, i) == SubSeq(seq, 1, i - 1) \o SubSeq(seq, i + 1, Len(seq))

\* the positions of the student's rows that no row of the student exceeds
\* in timestamp
LatestOf(store, student_id) ==
    {i \in 1..Len(store) :
        /\ store[i].student_id = student_id
        /\ \A j \in 1..Len(store) :
              store[j].student_id = student_id =>
                  store[j].timestamp <= store[i].timestamp}

\* C19: a call of delete_last_entry removes at most one row; the row
\* removed belongs to the current student, no row of that student has a
\* greater timestamp, and the user confirmed; when the user declines or the
\* student has no row the table is unchanged; every other row, the rows of
\* other students included, stays as it was.
DeleteRemovesOnlyLatestOwnRow ==
    [][/\ sessions' # sessions =>
            /\ console' = <<DeletedMsg, UpdatedHistoryHint>>
            /\ \E i \in LatestOf(sessions, current_user_id) :
                   sessions' = RemoveAt(sessions, i)
       /\ console' \in {<<CancelledMsg>>, <<NoEntriesMsg, StartReportingHint>>}
            => sessions' = sessions
       /\ console' = <<NoEntriesMsg, StartReportingHint>>
            => LatestOf(sessions, current_user_id) = {}
       /\ console' = <<DeletedMsg, UpdatedHistoryHint>>
            => Len(sessions') = Len(sessions) - 1]_vars

\* C19 witness: the student confirmed and one of two own rows with the same
\* greatest timestamp went; the later row of another student is still there.
LatestOwnRowDeleted ==
    /\ console = <<DeletedMsg, UpdatedHistoryHint>>
    /\ Len(sessions) = 2
    /\ sessions[1].student_id = current_user_id
    /\ sessions[1].timestamp = 1
    /\ sessions[1].id \in {1, 2}
    /\ sessions[2].student_id = "s2"
    /\ sessions[2].timestamp = 2
    /\ sessions[2].id = 3

\* C20 as stated: every row view_history shows carries the marker of the
\* band of its stored verdict: green for Home Care, yellow for Monitor, red
\* for Urgent Care only.
HistoryMarkerAgreesWithVerdict ==
    \A k \in 1..Len(displayed) :
        /\ displayed[k].verdict = HomeCare => displayed[k].marker = GreenCircle
        /\ displayed[k].verdict = Monitor => displayed[k].marker = YellowCircle
        /\ displayed[k].marker = RedCircle => displayed[k].verdict = UrgentCare


-----------------------------------------------------------------------------
(* Properties of the accounts (SpecAccounts) *)

\* the student ids of a users table
RegisteredIds(table) == {table[i].student_id : i \in 1..Len(table)}

\* C21: the student ids of the users table are pairwise different, and
\* every row has a non-blank id, a non-blank name and an age from 0 to 120;
\* no step removes a row or changes a column of an existing row other than
\* last_login; a row is added only by a creation that returns its id;
\* create_new_profile answers a registered id with a refusal and another
\* pass of its prompts, and a failed insert with None and no row.
UsersUniqueAndNeverOverwritten ==
    /\ [](/\ \A i, j \in 1..Len(users) :
                users[i].student_id = users[j].student_id => i = j
          /\ \A i \in 1..Len(users) :
                /\ Strip(CharsOf(users[i].student_id)) # <<>>
                /\ Strip(CharsOf(users[i].full_name)) # <<>>
                /\ users[i].age >= 0
                /\ users[i].age <= 120)
    /\ [][/\ Len(users') >= Len(users)
          /\ \A i \in 1..Len(users) :
                users'[i] = [users[i] EXCEPT !.last_login = users'[i].last_login]
          /\ Len(users') > Len(users) =>
                /\ Len(users') = Len(users) + 1
                /\ pc = "create_profile"
                /\ users'[Len(users')].student_id \notin RegisteredIds(users)
                /\ current_user_id' = users'[Len(users')].student_id
                /\ console' = <<ProfileCreatedMsg>>
          /\ console' = <<AlreadyRegisteredMsg>> =>
                (users' = users /\ pc' = "create_profile")
          /\ console' = <<DatabaseErrorMsg, TryAgainMsg>> =>
                (users' = users /\ current_user_id' = None)]_vars

\* C21 witness: the profile of "s1", with a name that starts with a blank
\* and the age 120, was created next to the profile of "s2", which is as it
\* was.
SecondProfileCreated ==
    /\ console = <<ProfileCreatedMsg>>
    /\ current_user_id = "s1"
    /\ Len(users) = 2
    /\ users[1] = [student_id |-> "s2", full_name |-> "n", age |-> 20,
                   gender |-> "Other", hostel_room |-> "r",
                   created_at |-> 1, last_login |-> 1]
    /\ users[2].student_id = "s1"
    /\ users[2].full_name = " n"
    /\ users[2].age = 120

\* C22: at the main menu the current user id is the id of a row of the
\* users table; after a failed creation the program is at the account
\* prompt without a user; every row of sessions, medical_history,
\* allergies and emergency_contacts carries the id of a row of users.
MainMenuOnlyForRegisteredUser ==
    /\ pc = "main_menu" => current_user_id \in RegisteredIds(users)
    /\ console = <<DatabaseErrorMsg, TryAgainMsg>> =>
          (pc = "account_menu" /\ current_user_id = None)
    /\ \A r \in 1..Len(sessions) :
          sessions[r].student_id \in RegisteredIds(users)
    /\ \A r \in 1..Len(profile_tables.medical_history) :
          profile_tables.medical_history[r].student_id \in RegisteredIds(users)
    /\ \A r \in 1..Len(profile_tables.allergies) :
          profile_tables.allergies[r].student_id \in RegisteredIds(users)
    /\ \A r \in 1..Len(profile_tables.emergency_contacts) :
          profile_tables.emergency_contacts[r].student_id \in RegisteredIds(users)

\* C22 witness: the student "s1", whose profile was created after that of
\* "s2", is at the main menu and has written a report and an allergy.
CreatedUserWroteRecords ==
    /\ pc = "main_menu"
    /\ current_user_id = "s1"
    /\ Len(users) = 2
    /\ users[2].student_id = "s1"
    /\ Len(sessions) = 2
    /\ sessions[2].student_id = "s1"
    /\ Len(profile_tables.allergies) = 1
    /\ profile_tables.allergies[1].student_id = "s1"

====
